---- MODULE Spec2Model ----
(***************************************************************************)
(* McpChannelPlugin (apps/desktop/windows/runner/mcp_channel_plugin.cpp):  *)
(* a session that supervises one Node.js child process, writes request     *)
(* envelopes to its stdin, and routes the lines the child prints on stdout *)
(* to the callers waiting in pending_requests_.                            *)
(*                                                                         *)
(* Threads: the platform (caller) thread runs the method handlers; the     *)
(* output and error reader threads are started by NodeJsProcess::Start;    *)
(* the child process is the environment.                                   *)
(***************************************************************************)
EXTENDS Integers, Sequences, FiniteSets, TLC

\* ------------------------------------------------------------- bounds
MaxRequests == 2      \* processMessage calls that register a MethodResult
MaxSpawns == 2        \* child processes CreateProcessA may create
MaxChildLines == 2    \* lines the children print on stdout, in total
MaxStreams == 1       \* streamMessage envelopes written to one child's stdin
MaxRead == 10         \* tokens one ReadFile returns at most: sizeof(buffer) - 1
MaxBuffered == 4      \* bytes written by the child that are not yet split off
MaxFramed == 2        \* messages delivered before the child stops writing

\* ------------------------------------------------------------- strings
\* A string is a sequence of tokens; a token stands for one occurrence of a
\* substring the code searches for, at a nesting depth of the JSON text
\* (0: a field of the envelope, 1: inside a payload value).
Tok(s, v, d) == [sub |-> s, val |-> v, depth |-> d]
NL == Tok("\n", "", 0)
NUL == Tok("NUL", "", 0)
TypeResponse == Tok("\"type\":\"response\"", "", 0)
TypeEvent == Tok("\"type\":\"event\"", "", 0)
RequestIdTok(r) == Tok("\"requestId\":\"", r, 0)
ErrorNull(d) == Tok("\"error\":null", "", d)
ErrorValue(d) == Tok("\"error\":", "value", d)
Data(v) == Tok("data", v, 1)

RequestIds == {"r1", "r2"}
NoId == "none"
InitId == "init_t"
StreamId == "stream_t"

\* The lines a child may print: the inbound protocol's two shapes, type first,
\* then requestId, then error, then the payload. In order: a result, a reported
\* error, a result whose payload has an "error" key of its own, an event.
ResponseLine(rid, err, payload) ==
  <<TypeResponse, RequestIdTok(rid)>> \o err \o payload
ChildLines ==
  {ResponseLine("r1", <<ErrorNull(0)>>, <<Data("42")>>),
   ResponseLine("r1", <<ErrorValue(0)>>, <<>>),
   ResponseLine("r1", <<>>, <<ErrorValue(1)>>),
   <<TypeEvent, Data("progress")>>}

\* ----------------------------------------------------------- variables
VARIABLES
  is_initialized_,      \* McpChannelPlugin::is_initialized_
  pending_requests_,    \* request id -> the MethodResult registered under it
  replies,              \* MethodResult -> the completions it has received
  destroyed,            \* MethodResults destroyed without a completion
  nextResult,           \* the next MethodResult to be registered
  lastReply,            \* the completion of the last call answered at once
  callerPc,             \* the platform thread's position
  callerRid,            \* ProcessMessage's request_id
  message_callback_,    \* NodeJsProcess::message_callback_ is set
  is_running_,          \* NodeJsProcess::is_running_
  child_stdin_write_,   \* the three handles: "INVALID" or "open"
  child_stdout_read_,
  child_stderr_read_,
  process_info_,        \* the child process_info_.hProcess names (0: zeroed)
  output_thread_,       \* "none" (not joinable), "run", "exited" (joinable)
  error_thread_,
  accumulated_data,     \* ReadOutputThread's local buffer
  delivered,            \* the messages handed to message_callback_
  alive,                \* the child processes that are alive
  spawned,              \* the child processes created so far
  stdin_log,            \* the envelopes written to the current child
  stdout_pipe,          \* the bytes the child printed that are not read yet
  childLines,           \* lines printed so far
  event_sink_,          \* McpEventStreamHandler::event_sink_ holds a sink
  events,               \* the events handed to the sink
  pending_requests_mutex_,  \* the thread that holds the mutex, or "free"
  callback_mutex_,
  platformAt,           \* the platform thread's place in a locked section
  readerAt              \* the output reader's place in the callback

sessionVars == <<is_initialized_, pending_requests_, replies, destroyed, nextResult>>
callerVars == <<lastReply, callerPc, callerRid>>
processVars == <<message_callback_, is_running_, child_stdin_write_,
                 child_stdout_read_, child_stderr_read_, process_info_>>
threadVars == <<output_thread_, error_thread_, accumulated_data, delivered>>
childVars == <<alive, spawned, stdin_log, stdout_pipe, childLines>>
subscriberVars == <<event_sink_, events>>
lockVars == <<pending_requests_mutex_, callback_mutex_, platformAt, readerAt>>
vars == <<sessionVars, callerVars, processVars, threadVars, childVars,
          subscriberVars, lockVars>>

Results == 1..MaxRequests
NoReply == [method |-> "", code |-> ""]
Range(f) == {f[x] : x \in DOMAIN f}
EmptyMap == [x \in {} |-> 0]

\* McpChannelPlugin() and NodeJsProcess(): the state after construction.
Init ==
  /\ is_initialized_ = FALSE
  /\ pending_requests_ = EmptyMap
  /\ replies = [t \in Results |-> <<>>]
  /\ destroyed = {}
  /\ nextResult = 1
  /\ lastReply = NoReply
  /\ callerPc = "idle"
  /\ callerRid = NoId
  /\ message_callback_ = FALSE
  /\ is_running_ = FALSE
  /\ child_stdin_write_ = "INVALID"
  /\ child_stdout_read_ = "INVALID"
  /\ child_stderr_read_ = "INVALID"
  /\ process_info_ = 0
  /\ output_thread_ = "none"
  /\ error_thread_ = "none"
  /\ accumulated_data = <<>>
  /\ delivered = <<>>
  /\ alive = {}
  /\ spawned = 0
  /\ stdin_log = <<>>
  /\ stdout_pipe = <<>>
  /\ childLines = 0
  /\ event_sink_ = FALSE
  /\ events = <<>>
  /\ pending_requests_mutex_ = "free"
  /\ callback_mutex_ = "free"
  /\ platformAt = "out"
  /\ readerAt = "out"

\* ------------------------------------------------------------- results
\* result->Error(code, ...) / result->Success(...) of a call answered before
\* the handler returns.
Reply(method, code) == [method |-> method, code |-> code]
ErrorReply(code) == [kind |-> "Error", code |-> code]
\* JsonStringToEncodableValue: the whole line as the map's "data" entry.
JsonStringToEncodableValue(json_str) == [data |-> json_str]
SuccessReply(value) == [kind |-> "Success", value |-> value]
Complete(t, r) == [replies EXCEPT ![t] = Append(@, r)]

\* std::map::erase and operator[] assignment.
Erase(m, k) == [x \in DOMAIN m \ {k} |-> m[x]]
Assign(m, k, v) == [x \in DOMAIN m \cup {k} |-> IF x = k THEN v ELSE m[x]]

\* ------------------------------------------------------------- strings
\* std::string::find of a marker: the index of its first occurrence, 0 for npos.
\* "error": is a prefix of "error":null, so it is found in both tokens.
Matches(tok, marker) ==
  \/ tok.sub = marker
  \/ marker = "\"error\":" /\ tok.sub = "\"error\":null"
Find(s, marker) ==
  IF \E i \in 1..Len(s) : Matches(s[i], marker)
  THEN CHOOSE i \in 1..Len(s) :
         /\ Matches(s[i], marker)
         /\ \A j \in 1..(i - 1) : ~Matches(s[j], marker)
  ELSE 0
npos == 0
FindNewline(s) ==
  IF \E i \in 1..Len(s) : s[i] = NL
  THEN CHOOSE i \in 1..Len(s) : s[i] = NL /\ \A j \in 1..(i - 1) : s[j] # NL
  ELSE 0

\* accumulated_data += buffer: buffer is appended as a C string, up to the
\* first NUL in it (the terminator stored at buffer[bytes_read] at the latest).
CString(buffer) ==
  IF \E i \in 1..Len(buffer) : buffer[i] = NUL
  THEN SubSeq(buffer, 1,
         (CHOOSE i \in 1..Len(buffer) :
            buffer[i] = NUL /\ \A j \in 1..(i - 1) : buffer[j] # NUL) - 1)
  ELSE buffer

Min(a, b) == IF a <= b THEN a ELSE b

\* ---------------------------------------------------------- NodeJsProcess
\* WriteFile on the child's stdin pipe succeeds while the child holds its end.
WriteFile == process_info_ \in alive

\* NodeJsProcess::SendMessage: whether the line is written.
SendMessage ==
  /\ is_running_
  /\ child_stdin_write_ # "INVALID"
  /\ WriteFile

\* NodeJsProcess::Start once is_running_ is false: pipes is the number of
\* CreatePipe calls that succeed, procOk whether CreateProcessA does.
StartFresh(pipes, procOk) ==
  /\ child_stdout_read_' = IF pipes >= 1 THEN "open" ELSE child_stdout_read_
  /\ child_stdin_write_' = IF pipes >= 2 THEN "open" ELSE child_stdin_write_
  /\ child_stderr_read_' = IF pipes >= 3 THEN "open" ELSE child_stderr_read_
  /\ IF pipes = 3 /\ procOk
     THEN /\ spawned < MaxSpawns
          /\ spawned' = spawned + 1
          /\ alive' = alive \cup {spawned + 1}
          /\ process_info_' = spawned + 1
          /\ is_running_' = TRUE
          /\ output_thread_' = "run"
          /\ error_thread_' = "run"
          /\ accumulated_data' = <<>>
          /\ stdin_log' = <<>>
          /\ stdout_pipe' = <<>>
          /\ callerPc' = "init_send"
          /\ UNCHANGED lastReply
     ELSE /\ lastReply' = Reply("initialize", "INITIALIZATION_FAILED")
          /\ callerPc' = "return"
          /\ UNCHANGED <<spawned, alive, process_info_, is_running_, output_thread_,
                         error_thread_, accumulated_data, stdin_log, stdout_pipe>>

\* TerminateProcess(process_info_.hProcess, 0).
TerminateProcess == alive \ {process_info_}

\* Stop as it would be without the TerminateProcess call.
StopBeginNoTerminate ==
  /\ is_running_' = FALSE
  /\ alive' = alive
  /\ child_stdin_write_' = "INVALID"
  /\ child_stdout_read_' = "INVALID"
  /\ child_stderr_read_' = "INVALID"

\* NodeJsProcess::Stop up to the joins: the flag, the process, the handles.
StopBegin ==
  /\ is_running_' = FALSE
  /\ alive' = TerminateProcess
  /\ child_stdin_write_' = "INVALID"
  /\ child_stdout_read_' = "INVALID"
  /\ child_stderr_read_' = "INVALID"

\* ------------------------------------------------------ HandleNodeMessage
\* The request id between "requestId":" and the next quote.
ExtractRequestId(message) == message[Find(message, "\"requestId\":\"")].val

\* The error test of the response branch.
IsErrorResponse(message) ==
  /\ Find(message, "\"error\":") # npos
  /\ Find(message, "\"error\":null") = npos

\* stream_handler_ is never constructed: the member stays null.
stream_handler_ == FALSE

\* The response branch as it would be without the erase.
RouteResponseNoErase(request_id, message) ==
  IF request_id \in DOMAIN pending_requests_
  THEN /\ replies' = Complete(pending_requests_[request_id],
                       IF IsErrorResponse(message)
                       THEN ErrorReply("MCP_ERROR")
                       ELSE SuccessReply(JsonStringToEncodableValue(message)))
       /\ UNCHANGED pending_requests_
  ELSE UNCHANGED <<replies, pending_requests_>>

\* The response branch as it would be with a lookup by operator[], which
\* leaves a null entry (0) under an id that was not registered.
RouteResponseIndexed(request_id, message) ==
  IF request_id \in DOMAIN pending_requests_ /\ pending_requests_[request_id] # 0
  THEN /\ replies' = Complete(pending_requests_[request_id],
                       IF IsErrorResponse(message)
                       THEN ErrorReply("MCP_ERROR")
                       ELSE SuccessReply(JsonStringToEncodableValue(message)))
       /\ pending_requests_' = Erase(pending_requests_, request_id)
  ELSE /\ pending_requests_' = Assign(pending_requests_, request_id, 0)
       /\ UNCHANGED replies

\* The response branch under pending_requests_mutex_: find, complete, erase.
RouteResponse(request_id, message) ==
  IF request_id \in DOMAIN pending_requests_
  THEN /\ replies' = Complete(pending_requests_[request_id],
                       IF IsErrorResponse(message)
                       THEN ErrorReply("MCP_ERROR")
                       ELSE SuccessReply(JsonStringToEncodableValue(message)))
       /\ pending_requests_' = Erase(pending_requests_, request_id)
  ELSE UNCHANGED <<replies, pending_requests_>>

HandleNodeMessage(message) ==
  IF Find(message, "\"type\":\"response\"") # npos
  THEN /\ IF Find(message, "\"requestId\":\"") # npos
          THEN RouteResponse(ExtractRequestId(message), message)
          ELSE UNCHANGED <<replies, pending_requests_>>
       /\ UNCHANGED events
  ELSE /\ IF Find(message, "\"type\":\"event\"") # npos /\ stream_handler_ /\ event_sink_
          THEN events' = Append(events, JsonStringToEncodableValue(message))
          ELSE UNCHANGED events
       /\ UNCHANGED <<replies, pending_requests_>>

\* --------------------------------------------------------- caller thread
Envelope(method, request_id) == [method |-> method, requestId |-> request_id]

\* The streamMessage envelopes in the current child's stdin.
Streams == {i \in 1..Len(stdin_log) : stdin_log[i].method = "streamMessage"}

\* A handler that has answered its result returns to the dispatcher.
Answer(method, code) ==
  /\ lastReply' = Reply(method, code)
  /\ callerPc' = "return"

\* InitializeMcp as it would be without the is_initialized_ test.
InitializeMcpNoGuard ==
  /\ callerPc = "idle"
  /\ message_callback_' = TRUE
  /\ IF is_running_
     THEN /\ callerPc' = "init_send"
          /\ UNCHANGED <<lastReply, is_running_, child_stdin_write_,
                         child_stdout_read_, child_stderr_read_, process_info_,
                         output_thread_, error_thread_, accumulated_data,
                         alive, spawned, stdin_log, stdout_pipe>>
     ELSE \E pipes \in 0..3, procOk \in BOOLEAN : StartFresh(pipes, procOk)
  /\ UNCHANGED <<sessionVars, callerRid, delivered, childLines>>
  /\ UNCHANGED <<subscriberVars, lockVars>>

\* InitializeMcp up to and including Start.
InitializeMcp ==
  /\ callerPc = "idle"
  /\ IF is_initialized_
     THEN /\ Answer("initialize", "Success")
          /\ UNCHANGED <<sessionVars, callerRid, processVars, threadVars, childVars>>
     ELSE /\ message_callback_' = TRUE
          /\ IF is_running_
             THEN /\ callerPc' = "init_send"
                  /\ UNCHANGED <<lastReply, is_running_, child_stdin_write_,
                                 child_stdout_read_, child_stderr_read_, process_info_,
                                 output_thread_, error_thread_, accumulated_data,
                                 alive, spawned, stdin_log, stdout_pipe>>
             ELSE \E pipes \in 0..3, procOk \in BOOLEAN : StartFresh(pipes, procOk)
          /\ UNCHANGED <<sessionVars, callerRid, delivered, childLines>>
  /\ UNCHANGED <<subscriberVars, lockVars>>

\* InitializeMcp's end as it would be with the flag set before the send.
InitializeSendSetsFlag ==
  /\ callerPc = "init_send"
  /\ is_initialized_' = TRUE
  /\ IF SendMessage
     THEN /\ stdin_log' = Append(stdin_log, Envelope("initialize", InitId))
          /\ Answer("initialize", "Success")
     ELSE /\ Answer("initialize", "INITIALIZATION_FAILED")
          /\ UNCHANGED stdin_log
  /\ UNCHANGED <<pending_requests_, replies, destroyed, nextResult, callerRid,
                 processVars, threadVars, alive, spawned, stdout_pipe,
                 childLines>>
  /\ UNCHANGED <<subscriberVars, lockVars>>

\* InitializeMcp from the initialize envelope on.
InitializeSend ==
  /\ callerPc = "init_send"
  /\ IF SendMessage
     THEN /\ stdin_log' = Append(stdin_log, Envelope("initialize", InitId))
          /\ is_initialized_' = TRUE
          /\ Answer("initialize", "Success")
     ELSE /\ Answer("initialize", "INITIALIZATION_FAILED")
          /\ UNCHANGED <<stdin_log, is_initialized_>>
  /\ UNCHANGED <<pending_requests_, replies, destroyed, nextResult, callerRid,
                 processVars, threadVars, alive, spawned, stdout_pipe,
                 childLines>>
  /\ UNCHANGED <<subscriberVars, lockVars>>

\* ProcessMessage: the registration under pending_requests_mutex_. The
\* assignment destroys the MethodResult an equal id was registered with.
Register(request_id) ==
  /\ pending_requests_' = Assign(pending_requests_, request_id, nextResult)
  /\ destroyed' = IF request_id \in DOMAIN pending_requests_
                  THEN destroyed \cup {pending_requests_[request_id]}
                  ELSE destroyed
  /\ nextResult' = nextResult + 1

\* ProcessMessage as it would be without the is_initialized_ test.
ProcessMessageNoInitCheck(requestId) ==
  /\ callerPc = "idle"
  /\ IF requestId = NoId
     THEN /\ Answer("processMessage", "MISSING_REQUEST_ID")
          /\ UNCHANGED <<sessionVars, callerRid>>
     ELSE /\ nextResult <= MaxRequests
          /\ Register(requestId)
          /\ callerPc' = "pm_send"
          /\ callerRid' = requestId
          /\ UNCHANGED <<is_initialized_, replies, lastReply>>
  /\ UNCHANGED <<processVars, threadVars, childVars>>
  /\ UNCHANGED <<subscriberVars, lockVars>>

\* ProcessMessage up to the end of the registration.
ProcessMessage(requestId) ==
  /\ callerPc = "idle"
  /\ IF ~is_initialized_
     THEN /\ Answer("processMessage", "NOT_INITIALIZED")
          /\ UNCHANGED <<sessionVars, callerRid>>
     ELSE IF requestId = NoId
     THEN /\ Answer("processMessage", "MISSING_REQUEST_ID")
          /\ UNCHANGED <<sessionVars, callerRid>>
     ELSE /\ nextResult <= MaxRequests
          /\ Register(requestId)
          /\ callerPc' = "pm_send"
          /\ callerRid' = requestId
          /\ UNCHANGED <<is_initialized_, replies, lastReply>>
  /\ UNCHANGED <<processVars, threadVars, childVars>>
  /\ UNCHANGED <<subscriberVars, lockVars>>

\* ProcessMessage: the send.
ProcessMessageSend ==
  /\ callerPc = "pm_send"
  /\ IF SendMessage
     THEN /\ stdin_log' = Append(stdin_log, Envelope("processMessage", callerRid))
          /\ callerPc' = "idle"
          /\ callerRid' = NoId
     ELSE /\ callerPc' = "pm_fail"
          /\ UNCHANGED <<stdin_log, callerRid>>
  /\ UNCHANGED <<sessionVars, lastReply, processVars, threadVars, alive, spawned,
                 stdout_pipe, childLines>>
  /\ UNCHANGED <<subscriberVars, lockVars>>

\* The failure path as it would be without the erase.
FailPendingNoErase(request_id) ==
  IF request_id \in DOMAIN pending_requests_
  THEN /\ replies' = Complete(pending_requests_[request_id], ErrorReply("SEND_FAILED"))
       /\ UNCHANGED pending_requests_
  ELSE UNCHANGED <<replies, pending_requests_>>

\* ProcessMessage: the failure path under pending_requests_mutex_.
FailPending(request_id) ==
  IF request_id \in DOMAIN pending_requests_
  THEN /\ replies' = Complete(pending_requests_[request_id], ErrorReply("SEND_FAILED"))
       /\ pending_requests_' = Erase(pending_requests_, request_id)
  ELSE UNCHANGED <<replies, pending_requests_>>

ProcessMessageFail ==
  /\ callerPc = "pm_fail"
  /\ FailPending(callerRid)
  /\ callerPc' = "idle"
  /\ callerRid' = NoId
  /\ UNCHANGED <<is_initialized_, destroyed, nextResult, lastReply, processVars,
                 threadVars, childVars>>
  /\ UNCHANGED <<subscriberVars, lockVars>>

\* StreamMessage as it would be if it kept its result in the pending table.
StreamMessageRegisters(requestId) ==
  /\ callerPc = "idle"
  /\ IF ~is_initialized_
     THEN /\ Answer("streamMessage", "NOT_INITIALIZED")
          /\ UNCHANGED <<stdin_log, pending_requests_>>
     ELSE IF SendMessage
     THEN /\ Cardinality(Streams) < MaxStreams
          /\ stdin_log' = Append(stdin_log,
               Envelope("streamMessage", IF requestId = NoId THEN StreamId ELSE requestId))
          /\ pending_requests_' =
               Assign(pending_requests_, IF requestId = NoId THEN StreamId ELSE requestId, 1)
          /\ Answer("streamMessage", "Success")
     ELSE /\ Answer("streamMessage", "SEND_FAILED")
          /\ UNCHANGED <<stdin_log, pending_requests_>>
  /\ UNCHANGED <<is_initialized_, replies, destroyed, nextResult, callerRid,
                 processVars, threadVars, alive, spawned, stdout_pipe, childLines>>
  /\ UNCHANGED <<subscriberVars, lockVars>>

\* StreamMessage: the envelope is sent under the request's id, or under a
\* generated one; the result is answered before the handler returns.
StreamMessage(requestId) ==
  /\ callerPc = "idle"
  /\ IF ~is_initialized_
     THEN /\ Answer("streamMessage", "NOT_INITIALIZED")
          /\ UNCHANGED stdin_log
     ELSE IF SendMessage
     THEN /\ Cardinality(Streams) < MaxStreams
          /\ stdin_log' = Append(stdin_log,
               Envelope("streamMessage", IF requestId = NoId THEN StreamId ELSE requestId))
          /\ Answer("streamMessage", "Success")
     ELSE /\ Answer("streamMessage", "SEND_FAILED")
          /\ UNCHANGED stdin_log
  /\ UNCHANGED <<sessionVars, callerRid, processVars, threadVars, alive,
                 spawned, stdout_pipe, childLines>>
  /\ UNCHANGED <<subscriberVars, lockVars>>

\* The three handlers that only test is_initialized_.
MockCall(method) ==
  /\ callerPc = "idle"
  /\ Answer(method, IF is_initialized_ THEN "Success" ELSE "NOT_INITIALIZED")
  /\ UNCHANGED <<sessionVars, callerRid, processVars, threadVars, childVars>>
  /\ UNCHANGED <<subscriberVars, lockVars>>

TestConnection == MockCall("testConnection")
GetCapabilities == MockCall("getCapabilities")
InjectContext == MockCall("injectContext")

\* DisposeMcp as it would be if Stop did not test is_running_.
DisposeMcpNoGuard ==
  /\ callerPc = "idle"
  /\ StopBegin
  /\ IF output_thread_ # "none"
     THEN /\ callerPc' = "stop_join"
          /\ UNCHANGED <<is_initialized_, lastReply>>
     ELSE /\ is_initialized_' = FALSE
          /\ Answer("dispose", "Success")
  /\ UNCHANGED <<pending_requests_, replies, destroyed, nextResult, callerRid,
                 message_callback_, process_info_, threadVars, spawned, stdin_log,
                 stdout_pipe, childLines>>
  /\ UNCHANGED <<subscriberVars, lockVars>>

\* DisposeMcp up to Stop's joins (the whole of it when Stop returns at once).
DisposeMcp ==
  /\ callerPc = "idle"
  /\ IF is_running_
     THEN /\ StopBegin
          /\ callerPc' = "stop_join"
          /\ UNCHANGED <<is_initialized_, lastReply>>
     ELSE /\ is_initialized_' = FALSE
          /\ Answer("dispose", "Success")
          /\ UNCHANGED <<is_running_, alive, child_stdin_write_,
                         child_stdout_read_, child_stderr_read_>>
  /\ UNCHANGED <<pending_requests_, replies, destroyed, nextResult, callerRid,
                 message_callback_, process_info_, threadVars, spawned, stdin_log,
                 stdout_pipe, childLines>>
  /\ UNCHANGED <<subscriberVars, lockVars>>

\* DisposeMcp's end as it would be if Stop did not join the reader threads.
DisposeNoJoin ==
  /\ callerPc = "stop_join"
  /\ is_initialized_' = FALSE
  /\ Answer("dispose", "Success")
  /\ UNCHANGED <<pending_requests_, replies, destroyed, nextResult, callerRid,
                 processVars, threadVars, childVars>>
  /\ UNCHANGED <<subscriberVars, lockVars>>

\* DisposeMcp's end as it would be without is_initialized_ = false.
DisposeJoinKeepsFlag ==
  /\ callerPc = "stop_join"
  /\ output_thread_ = "exited"
  /\ error_thread_ = "exited"
  /\ output_thread_' = "none"
  /\ error_thread_' = "none"
  /\ Answer("dispose", "Success")
  /\ UNCHANGED <<sessionVars, callerRid, processVars, accumulated_data, delivered,
                 childVars>>
  /\ UNCHANGED <<subscriberVars, lockVars>>

\* DisposeMcp from Stop's joins on.
DisposeJoin ==
  /\ callerPc = "stop_join"
  /\ output_thread_ = "exited"
  /\ error_thread_ = "exited"
  /\ output_thread_' = "none"
  /\ error_thread_' = "none"
  /\ is_initialized_' = FALSE
  /\ Answer("dispose", "Success")
  /\ UNCHANGED <<pending_requests_, replies, destroyed, nextResult, callerRid,
                 processVars, accumulated_data, delivered, childVars>>
  /\ UNCHANGED <<subscriberVars, lockVars>>

\* McpEventStreamHandler::OnListenInternal and OnCancelInternal, run by the
\* platform thread on a handler of the event channel: the sink is stored in
\* the handler, or dropped. Neither takes a lock.
OnListenInternal ==
  /\ callerPc = "idle"
  /\ event_sink_' = TRUE
  /\ UNCHANGED <<sessionVars, callerVars, processVars, threadVars, childVars,
                 events, lockVars>>

OnCancelInternal ==
  /\ callerPc = "idle"
  /\ event_sink_' = FALSE
  /\ UNCHANGED <<sessionVars, callerVars, processVars, threadVars, childVars,
                 events, lockVars>>

\* HandleMethodCall returns: the platform thread is free for the next call.
Return ==
  /\ callerPc = "return"
  /\ callerPc' = "idle"
  /\ lastReply' = NoReply
  /\ UNCHANGED <<sessionVars, callerRid, processVars, threadVars, childVars>>
  /\ UNCHANGED <<subscriberVars, lockVars>>

\* --------------------------------------------------------- reader threads
\* ReadOutputThread as it would be if it cleared is_running_ when it ends.
ReadOutputClearsRunning ==
  /\ output_thread_ = "run"
  /\ FindNewline(accumulated_data) = npos
  /\ IF is_running_ /\ child_stdout_read_ # "INVALID" /\ stdout_pipe # <<>>
     THEN LET bytes_read == Min(Len(stdout_pipe), MaxRead)
          IN /\ accumulated_data' =
                  accumulated_data \o CString(SubSeq(stdout_pipe, 1, bytes_read))
             /\ stdout_pipe' = SubSeq(stdout_pipe, bytes_read + 1, Len(stdout_pipe))
             /\ UNCHANGED <<output_thread_, is_running_>>
     ELSE /\ ~(is_running_ /\ child_stdout_read_ # "INVALID" /\ process_info_ \in alive)
          /\ output_thread_' = "exited"
          /\ is_running_' = FALSE
          /\ UNCHANGED <<accumulated_data, stdout_pipe>>
  /\ UNCHANGED <<sessionVars, callerVars, message_callback_, child_stdin_write_,
                 child_stdout_read_, child_stderr_read_, process_info_,
                 error_thread_, delivered, alive, spawned, stdin_log, childLines>>
  /\ UNCHANGED <<subscriberVars, lockVars>>

\* ReadOutputThread: the loop test and ReadFile. ReadFile blocks while the
\* pipe is empty and the child holds its end, and returns what the pipe holds,
\* up to the size asked for.
ReadOutput ==
  /\ output_thread_ = "run"
  /\ FindNewline(accumulated_data) = npos
  /\ IF is_running_ /\ child_stdout_read_ # "INVALID" /\ stdout_pipe # <<>>
     THEN LET bytes_read == Min(Len(stdout_pipe), MaxRead)
          IN /\ accumulated_data' =
                  accumulated_data \o CString(SubSeq(stdout_pipe, 1, bytes_read))
             /\ stdout_pipe' = SubSeq(stdout_pipe, bytes_read + 1, Len(stdout_pipe))
             /\ UNCHANGED output_thread_
     ELSE /\ ~(is_running_ /\ child_stdout_read_ # "INVALID" /\ process_info_ \in alive)
          /\ output_thread_' = "exited"
          /\ UNCHANGED <<accumulated_data, stdout_pipe>>
  /\ UNCHANGED <<sessionVars, callerVars, processVars, error_thread_, delivered, alive,
                 spawned, stdin_log, childLines>>
  /\ UNCHANGED <<subscriberVars, lockVars>>

\* ReadOutputThread: one turn of the inner loop, the callback included.
ReadOutputLine ==
  /\ output_thread_ = "run"
  /\ FindNewline(accumulated_data) # npos
  /\ LET pos == FindNewline(accumulated_data)
         message == SubSeq(accumulated_data, 1, pos - 1)
     IN /\ accumulated_data' = SubSeq(accumulated_data, pos + 1, Len(accumulated_data))
        /\ IF message # <<>> /\ message_callback_
           THEN /\ HandleNodeMessage(message)
                /\ delivered' = Append(delivered, message)
           ELSE UNCHANGED <<replies, pending_requests_, delivered, events>>
  /\ UNCHANGED <<is_initialized_, destroyed, nextResult, callerVars, processVars,
                 output_thread_, error_thread_, childVars>>
  /\ UNCHANGED <<event_sink_, lockVars>>

\* ReadErrorThread: the loop test, ReadFile and the diagnostic print. What the
\* child prints on stderr changes nothing the session keeps.
ReadError ==
  /\ error_thread_ = "run"
  /\ IF is_running_ /\ child_stderr_read_ # "INVALID" /\ process_info_ \in alive
     THEN UNCHANGED error_thread_
     ELSE error_thread_' = "exited"
  /\ UNCHANGED <<sessionVars, callerVars, processVars, output_thread_, accumulated_data,
                 delivered, childVars>>
  /\ UNCHANGED <<subscriberVars, lockVars>>

\* ------------------------------------------------------------ the child
ChildPrint ==
  /\ process_info_ \in alive
  /\ childLines < MaxChildLines
  /\ \E line \in ChildLines : stdout_pipe' = stdout_pipe \o line \o <<NL>>
  /\ childLines' = childLines + 1
  /\ UNCHANGED <<sessionVars, callerVars, processVars, threadVars, alive, spawned,
                 stdin_log>>
  /\ UNCHANGED <<subscriberVars, lockVars>>

ChildExit ==
  /\ process_info_ \in alive
  /\ alive' = alive \ {process_info_}
  /\ UNCHANGED <<sessionVars, callerVars, processVars, threadVars, spawned, stdin_log,
                 stdout_pipe, childLines>>
  /\ UNCHANGED <<subscriberVars, lockVars>>

\* ------------------------------------------------------------------ Next
CallerNext ==
  \/ InitializeMcp
  \/ InitializeSend
  \/ \E requestId \in RequestIds \cup {NoId} : ProcessMessage(requestId)
  \/ ProcessMessageSend
  \/ ProcessMessageFail
  \/ \E requestId \in {"r1", NoId} : StreamMessage(requestId)
  \/ TestConnection
  \/ GetCapabilities
  \/ InjectContext
  \/ DisposeMcp
  \/ DisposeJoin
  \/ Return
  \/ OnListenInternal
  \/ OnCancelInternal

ReaderNext == ReadOutput \/ ReadOutputLine \/ ReadError

ChildNext == ChildPrint \/ ChildExit

Next == CallerNext \/ ReaderNext \/ ChildNext

Spec == Init /\ [][Next]_vars

\* The threads keep running: a reader thread that can take a step takes it, and
\* a handler that has started runs to its end. Nothing obliges the host to
\* make a call or the child to print or to exit.
CallerContinue ==
  InitializeSend \/ ProcessMessageSend \/ ProcessMessageFail \/ DisposeJoin \/ Return
FairSpec == Spec /\ WF_vars(ReaderNext) /\ WF_vars(CallerContinue)

\* ---------------------------------------------------------- line framing
\* The output reader alone, fed byte by byte: the session right after a first
\* initialize has succeeded, a child that writes any bytes in writes of any
\* size (a read takes what the writes before it have left in the pipe), and
\* the reader thread.
FramingBytes == {Data("a"), Data("b"), NL, NUL}

\* The state a first successful InitializeMcp leaves.
ReadyInit ==
  /\ is_initialized_ = TRUE
  /\ pending_requests_ = EmptyMap
  /\ replies = [t \in Results |-> <<>>]
  /\ destroyed = {}
  /\ nextResult = 1
  /\ lastReply = NoReply
  /\ callerPc = "idle"
  /\ callerRid = NoId
  /\ message_callback_ = TRUE
  /\ is_running_ = TRUE
  /\ child_stdin_write_ = "open"
  /\ child_stdout_read_ = "open"
  /\ child_stderr_read_ = "open"
  /\ process_info_ = 1
  /\ output_thread_ = "run"
  /\ error_thread_ = "run"
  /\ accumulated_data = <<>>
  /\ delivered = <<>>
  /\ alive = {1}
  /\ spawned = 1
  /\ stdin_log = <<Envelope("initialize", InitId)>>
  /\ stdout_pipe = <<>>
  /\ childLines = 0
  /\ event_sink_ = FALSE
  /\ events = <<>>
  /\ pending_requests_mutex_ = "free"
  /\ callback_mutex_ = "free"
  /\ platformAt = "out"
  /\ readerAt = "out"

ChildWrite ==
  /\ process_info_ \in alive
  /\ Len(accumulated_data) + Len(stdout_pipe) < MaxBuffered
  /\ Len(delivered) < MaxFramed
  /\ \E byte \in FramingBytes : stdout_pipe' = Append(stdout_pipe, byte)
  /\ UNCHANGED <<sessionVars, callerVars, processVars, threadVars, alive, spawned,
                 stdin_log, childLines, subscriberVars, lockVars>>

FramingNext == ChildWrite \/ ChildExit \/ ReadOutput \/ ReadOutputLine

FramingSpec == ReadyInit /\ [][FramingNext]_vars

\* -------------------------------------------------------------- locking
\* The sections of the platform thread and of the output reader that touch
\* pending_requests_ and event_sink_, one step per lock, access and unlock,
\* on a session that is initialized. A std::lock_guard blocks until the mutex
\* is free and releases it at the end of its scope.
Lock(mutex, thread) == mutex = "free" /\ mutex' = thread
Unlock(mutex) == mutex' = "free"

\* ProcessMessage entered with a requestId, up to the lock_guard of the
\* registration.
EnterProcessMessage(requestId) ==
  /\ platformAt = "out"
  /\ is_initialized_
  /\ nextResult <= MaxRequests
  /\ platformAt' = "register_wait"
  /\ callerRid' = requestId
  /\ UNCHANGED <<sessionVars, lastReply, callerPc, processVars, threadVars,
                 childVars, subscriberVars, pending_requests_mutex_,
                 callback_mutex_, readerAt>>

\* The registration as it would be without the lock_guard.
LockRegisterNoMutex ==
  /\ platformAt = "register_wait"
  /\ platformAt' = "register"
  /\ UNCHANGED <<sessionVars, callerVars, processVars, threadVars, childVars,
                 subscriberVars, pending_requests_mutex_, callback_mutex_,
                 readerAt>>

\* std::lock_guard lock(pending_requests_mutex_) of the registration.
LockRegister ==
  /\ platformAt = "register_wait"
  /\ Lock(pending_requests_mutex_, "platform")
  /\ platformAt' = "register"
  /\ UNCHANGED <<sessionVars, callerVars, processVars, threadVars, childVars,
                 subscriberVars, callback_mutex_, readerAt>>

\* pending_requests_[request_id] = std::move(result), and the end of the scope.
RegisterLocked ==
  /\ platformAt = "register"
  /\ Register(callerRid)
  /\ Unlock(pending_requests_mutex_)
  /\ platformAt' = "send"
  /\ UNCHANGED <<is_initialized_, replies, callerVars, processVars, threadVars,
                 childVars, subscriberVars, callback_mutex_, readerAt>>

\* SendMessage, and the lock_guard of the failure path when it fails.
SendUnlocked ==
  /\ platformAt = "send"
  /\ IF SendMessage
     THEN /\ stdin_log' = Append(stdin_log, Envelope("processMessage", callerRid))
          /\ platformAt' = "out"
     ELSE /\ platformAt' = "fail_wait"
          /\ UNCHANGED stdin_log
  /\ UNCHANGED <<sessionVars, callerVars, processVars, threadVars, alive, spawned,
                 stdout_pipe, childLines, subscriberVars, pending_requests_mutex_,
                 callback_mutex_, readerAt>>

LockFail ==
  /\ platformAt = "fail_wait"
  /\ Lock(pending_requests_mutex_, "platform")
  /\ platformAt' = "fail"
  /\ UNCHANGED <<sessionVars, callerVars, processVars, threadVars, childVars,
                 subscriberVars, callback_mutex_, readerAt>>

FailLocked ==
  /\ platformAt = "fail"
  /\ FailPending(callerRid)
  /\ Unlock(pending_requests_mutex_)
  /\ platformAt' = "out"
  /\ UNCHANGED <<is_initialized_, destroyed, nextResult, callerVars, processVars,
                 threadVars, childVars, subscriberVars, callback_mutex_, readerAt>>

\* OnListenInternal and OnCancelInternal: the assignment to event_sink_ is
\* under way between the two steps. No mutex is taken.
EnterOnListen ==
  /\ platformAt = "out"
  /\ platformAt' = "listen"
  /\ UNCHANGED <<sessionVars, callerVars, processVars, threadVars, childVars,
                 subscriberVars, pending_requests_mutex_, callback_mutex_,
                 readerAt>>

EnterOnCancel ==
  /\ platformAt = "out"
  /\ platformAt' = "cancel"
  /\ UNCHANGED <<sessionVars, callerVars, processVars, threadVars, childVars,
                 subscriberVars, pending_requests_mutex_, callback_mutex_,
                 readerAt>>

SinkWritten ==
  /\ platformAt \in {"listen", "cancel"}
  /\ event_sink_' = (platformAt = "listen")
  /\ platformAt' = "out"
  /\ UNCHANGED <<sessionVars, callerVars, processVars, threadVars, childVars,
                 events, pending_requests_mutex_, callback_mutex_, readerAt>>

\* ReadOutputThread has split a line off: the lock_guard on callback_mutex_
\* and the call of message_callback_.
LockCallback ==
  /\ readerAt = "out"
  /\ output_thread_ = "run"
  /\ message_callback_
  /\ Len(delivered) < MaxFramed
  /\ Lock(callback_mutex_, "reader")
  /\ \E message \in ChildLines : delivered' = Append(delivered, message)
  /\ readerAt' = "callback"
  /\ UNCHANGED <<sessionVars, callerVars, processVars, output_thread_,
                 error_thread_, accumulated_data, childVars, subscriberVars,
                 pending_requests_mutex_, platformAt>>

\* The message HandleNodeMessage was called with.
Handled == delivered[Len(delivered)]

\* HandleNodeMessage up to the lock_guard of the response branch, or to the
\* test of the event branch; any other message ends the callback.
Dispatch ==
  /\ readerAt = "callback"
  /\ IF /\ Find(Handled, "\"type\":\"response\"") # npos
        /\ Find(Handled, "\"requestId\":\"") # npos
     THEN readerAt' = "route_wait" /\ UNCHANGED callback_mutex_
     ELSE IF /\ Find(Handled, "\"type\":\"response\"") = npos
             /\ Find(Handled, "\"type\":\"event\"") # npos
     THEN readerAt' = "event" /\ UNCHANGED callback_mutex_
     ELSE readerAt' = "out" /\ Unlock(callback_mutex_)
  /\ UNCHANGED <<sessionVars, callerVars, processVars, threadVars, childVars,
                 subscriberVars, pending_requests_mutex_, platformAt>>

LockRoute ==
  /\ readerAt = "route_wait"
  /\ Lock(pending_requests_mutex_, "reader")
  /\ readerAt' = "route"
  /\ UNCHANGED <<sessionVars, callerVars, processVars, threadVars, childVars,
                 subscriberVars, callback_mutex_, platformAt>>

\* The end of the response branch as it would be if pending_requests_mutex_
\* were locked by hand and not unlocked.
RouteLockedKeepsMutex ==
  /\ readerAt = "route"
  /\ RouteResponse(ExtractRequestId(Handled), Handled)
  /\ Unlock(callback_mutex_)
  /\ readerAt' = "out"
  /\ UNCHANGED <<is_initialized_, destroyed, nextResult, callerVars, processVars,
                 threadVars, childVars, subscriberVars, platformAt,
                 pending_requests_mutex_>>

\* find, complete, erase; the two lock_guards end with the callback.
RouteLocked ==
  /\ readerAt = "route"
  /\ RouteResponse(ExtractRequestId(Handled), Handled)
  /\ Unlock(pending_requests_mutex_)
  /\ Unlock(callback_mutex_)
  /\ readerAt' = "out"
  /\ UNCHANGED <<is_initialized_, destroyed, nextResult, callerVars, processVars,
                 threadVars, childVars, subscriberVars, platformAt>>

\* stream_handler_ && stream_handler_->event_sink_: the sink is read only
\* through a handler that is set.
EventTest ==
  /\ readerAt = "event"
  /\ IF stream_handler_ /\ event_sink_
     THEN events' = Append(events, JsonStringToEncodableValue(Handled))
     ELSE UNCHANGED events
  /\ Unlock(callback_mutex_)
  /\ readerAt' = "out"
  /\ UNCHANGED <<sessionVars, callerVars, processVars, threadVars, childVars,
                 event_sink_, pending_requests_mutex_, platformAt>>

LockNext ==
  \/ \E requestId \in RequestIds : EnterProcessMessage(requestId)
  \/ LockRegister
  \/ RegisterLocked
  \/ SendUnlocked
  \/ LockFail
  \/ FailLocked
  \/ EnterOnListen
  \/ EnterOnCancel
  \/ SinkWritten
  \/ LockCallback
  \/ Dispatch
  \/ LockRoute
  \/ RouteLocked
  \/ EventTest
  \/ ChildExit

LockSpec == ReadyInit /\ [][LockNext]_vars

\* ----------------------------------------------------------------- stop
\* The locked sections together with DisposeMcp and the end of the reader
\* threads: Stop takes no mutex and waits in its joins for both threads.
EnterStop ==
  /\ platformAt = "out"
  /\ IF is_running_
     THEN /\ StopBegin
          /\ platformAt' = "join"
          /\ UNCHANGED is_initialized_
     ELSE /\ is_initialized_' = FALSE
          /\ UNCHANGED <<is_running_, alive, child_stdin_write_, child_stdout_read_,
                         child_stderr_read_, platformAt>>
  /\ UNCHANGED <<pending_requests_, replies, destroyed, nextResult, callerVars,
                 message_callback_, process_info_, threadVars, spawned, stdin_log,
                 stdout_pipe, childLines, subscriberVars, pending_requests_mutex_,
                 callback_mutex_, readerAt>>

\* ReadOutputThread between two lines: the loop test or ReadFile fails once
\* the flag is cleared, the handle is closed or the child is gone.
ReaderEnds ==
  /\ readerAt = "out"
  /\ output_thread_ = "run"
  /\ ~(is_running_ /\ child_stdout_read_ # "INVALID" /\ process_info_ \in alive)
  /\ output_thread_' = "exited"
  /\ UNCHANGED <<sessionVars, callerVars, processVars, error_thread_,
                 accumulated_data, delivered, childVars, subscriberVars, lockVars>>

\* Both joins have returned: the rest of DisposeMcp.
StopJoined ==
  /\ platformAt = "join"
  /\ output_thread_ = "exited"
  /\ error_thread_ = "exited"
  /\ output_thread_' = "none"
  /\ error_thread_' = "none"
  /\ is_initialized_' = FALSE
  /\ platformAt' = "out"
  /\ UNCHANGED <<pending_requests_, replies, destroyed, nextResult, callerVars,
                 processVars, accumulated_data, delivered, childVars,
                 subscriberVars, pending_requests_mutex_, callback_mutex_,
                 readerAt>>

StopNext == LockNext \/ EnterStop \/ ReaderEnds \/ ReadError \/ StopJoined

\* A thread that can take its next step takes it, and a lock_guard gets a
\* mutex that stays free. Nothing obliges the host to call, or the child to
\* print or to exit.
PlatformContinue ==
  \/ LockRegister
  \/ RegisterLocked
  \/ SendUnlocked
  \/ LockFail
  \/ FailLocked
  \/ SinkWritten
  \/ StopJoined
ReaderContinue == Dispatch \/ LockRoute \/ RouteLocked \/ EventTest \/ ReaderEnds

StopSpec ==
  /\ ReadyInit
  /\ [][StopNext]_vars
  /\ WF_vars(PlatformContinue)
  /\ WF_vars(ReaderContinue)
  /\ WF_vars(ReadError)

\* ============================================================== claims
\* What a line means by the inbound protocol: the fields of the envelope are
\* the tokens at depth 0.
IsResponse(m) == \E i \in 1..Len(m) : m[i] = TypeResponse
HasRequestId(m) == \E i \in 1..Len(m) : m[i].sub = "\"requestId\":\"" /\ m[i].depth = 0
RequestIdOf(m) ==
  m[CHOOSE i \in 1..Len(m) : m[i].sub = "\"requestId\":\"" /\ m[i].depth = 0].val
HasError(m) == \E i \in 1..Len(m) : m[i] = ErrorValue(0)

Registered == 1..(nextResult - 1)
Completed(t) == replies[t] # <<>>
FailedReply(r) == r.kind = "Error"

\* The step in which the handler of a call answers its result.
Answers == callerPc # "return" /\ callerPc' = "return"
\* The step in which the output reader hands a line to the callback.
Delivers == Len(delivered') = Len(delivered) + 1
Delivered == delivered'[Len(delivered')]

\* C1: once dispose() has answered, the pending table is empty and every
\* registered request has received a completion.
C1_DisposeFailsAll ==
  lastReply = Reply("dispose", "Success") =>
    /\ pending_requests_ = EmptyMap
    /\ \A t \in Registered : Completed(t)

\* C2: once the output reader has seen the stream of a Ready session close,
\* every request pending then is eventually completed with a failure.
C2_ClosureFailsPending ==
  \A t \in Results :
    (output_thread_ = "exited" /\ is_running_ /\ is_initialized_
       /\ t \in Range(pending_requests_))
      ~> (Completed(t) /\ FailedReply(replies[t][Len(replies[t])]))

\* C3: while the supervised child is dead no envelope is written and every
\* streamMessage and processMessage send fails, and an initialize that answers
\* success leaves a live child behind.
C3_DeadUntilReinitialized ==
  [][/\ process_info_ \notin alive =>
          /\ stdin_log' = stdin_log \/ process_info_' # process_info_
          /\ Answers /\ lastReply'.method = "streamMessage" /\ is_initialized_
               => lastReply'.code = "SEND_FAILED"
          /\ callerPc = "pm_send" /\ callerPc' # "pm_send" => callerPc' = "pm_fail"
     /\ Answers /\ lastReply' = Reply("initialize", "Success")
          => process_info_' \in alive']_vars

\* C4: a MethodResult leaves the pending table only completed: registering an
\* id that is pending either leaves the old entry in place or completes it.
C4_NoSilentEviction ==
  [][\A t \in Range(pending_requests_) \ Range(pending_requests_') :
       Len(replies'[t]) >= 1]_vars

\* C5: every registered MethodResult is completed at most once.
C5_AtMostOnce == \A t \in Results : Len(replies[t]) <= 1

\* C5's case: the send of a registered request failed while the output reader
\* had already completed that request with a response.
C5_Witness ==
  /\ callerPc = "pm_fail"
  /\ callerRid \notin DOMAIN pending_requests_
  /\ Len(replies[nextResult - 1]) = 1
  /\ replies[nextResult - 1][1].kind = "Success"

\* C6: a response whose requestId is not in the pending table completes no
\* caller and leaves the table and the session as they were.
C6_UnknownResponseDropped ==
  [][Delivers /\ IsResponse(Delivered) /\ HasRequestId(Delivered)
       /\ RequestIdOf(Delivered) \notin DOMAIN pending_requests_
     => UNCHANGED <<sessionVars, callerVars>>]_vars

\* C6's case: two responses for r1 were delivered and the one request
\* registered under r1 holds a single completion: the other response was dropped.
C6_Witness ==
  /\ Len(delivered) = 2
  /\ \A i \in 1..2 : IsResponse(delivered[i]) /\ RequestIdOf(delivered[i]) = "r1"
  /\ nextResult = 2
  /\ Len(replies[1]) = 1
  /\ replies[1][1].kind = "Success"

\* C7: a response whose requestId is pending removes the entry and completes
\* its caller: with a failure when the envelope's error field is not null,
\* with a success carrying the line otherwise.
C7_ResponseCompletes ==
  [][Delivers /\ IsResponse(Delivered) /\ HasRequestId(Delivered)
       /\ RequestIdOf(Delivered) \in DOMAIN pending_requests_
     => LET r == RequestIdOf(Delivered)
            t == pending_requests_[r]
        IN /\ r \notin DOMAIN pending_requests_'
           /\ Len(replies'[t]) = Len(replies[t]) + 1
           /\ LET reply == replies'[t][Len(replies'[t])]
              IN IF HasError(Delivered)
                 THEN reply.kind = "Error"
                 ELSE reply.kind = "Success" /\ reply.value.data = Delivered]_vars

\* The step in which ProcessMessage's failure path runs, and the MethodResult
\* that ProcessMessage registered.
FailurePath == callerPc = "pm_fail" /\ callerPc' = "idle"
JustRegistered == nextResult - 1
OthersKept ==
  /\ DOMAIN pending_requests_' \subseteq DOMAIN pending_requests_
  /\ \A r \in DOMAIN pending_requests_ \ {callerRid} :
       r \in DOMAIN pending_requests_' /\ pending_requests_'[r] = pending_requests_[r]
  /\ \A t \in Results \ {JustRegistered} : replies'[t] = replies[t]

\* C8 as stated: the failure path completes the entry ProcessMessage registered
\* with SEND_FAILED and removes it; the other entries are unchanged.
C8_SendFailureFails ==
  [][FailurePath
     => /\ replies'[JustRegistered] = <<ErrorReply("SEND_FAILED")>>
        /\ callerRid \notin DOMAIN pending_requests_'
        /\ OthersKept]_vars

\* C8 amended: after the failure path the table holds no entry for the id and
\* the other entries are unchanged; the registered MethodResult has exactly one
\* completion, SEND_FAILED unless a response with its id completed it first.
C8_SendFailureClears ==
  [][FailurePath
     => /\ callerRid \notin DOMAIN pending_requests_'
        /\ OthersKept
        /\ Len(replies'[JustRegistered]) = 1
        /\ IF callerRid \in DOMAIN pending_requests_
           THEN /\ pending_requests_[callerRid] = JustRegistered
                /\ replies'[JustRegistered] = <<ErrorReply("SEND_FAILED")>>
           ELSE replies'[JustRegistered] = replies[JustRegistered]]_vars

\* C8's case: a request was failed with SEND_FAILED and removed while another
\* request stays pending.
C8_Witness ==
  /\ callerPc = "idle"
  /\ replies[2] = <<ErrorReply("SEND_FAILED")>>
  /\ DOMAIN pending_requests_ = {"r1"}
  /\ pending_requests_["r1"] = 1

ReadyMethods ==
  {"processMessage", "streamMessage", "testConnection", "getCapabilities",
   "injectContext"}
Rejections == {"NOT_INITIALIZED", "MISSING_REQUEST_ID"}

\* C9: the five calls answer NOT_INITIALIZED exactly when the session is not
\* initialized, processMessage without a requestId answers MISSING_REQUEST_ID
\* on an initialized session, and a call answered with either changes nothing:
\* no write to the child, no pending entry, the flags and the process as before.
C9_RejectedCallsChangeNothing ==
  [][/\ Answers /\ lastReply'.method \in ReadyMethods
          => /\ ~is_initialized_ <=> lastReply'.code = "NOT_INITIALIZED"
             /\ lastReply'.method = "processMessage" /\ is_initialized_
                  => lastReply'.code = "MISSING_REQUEST_ID"
             /\ lastReply'.code \in Rejections
                  => UNCHANGED <<sessionVars, callerRid, processVars, threadVars,
                                 childVars>>
     /\ callerPc = "idle" /\ callerPc' = "pm_send" => is_initialized_]_vars

\* C9's case: processMessage was rejected on a disposed session whose table
\* still holds an entry.
C9_Witness ==
  /\ lastReply = Reply("processMessage", "NOT_INITIALIZED")
  /\ pending_requests_ # EmptyMap
  /\ spawned = 1

\* C10: at most one child process of the session is alive.
C10_AtMostOneChild == Cardinality(alive) <= 1

\* C10's case: the session was initialized, disposed and initialized again.
C10_Witness == spawned = 2 /\ alive = {2} /\ is_initialized_

\* The step in which the platform thread enters InitializeMcp, and DisposeMcp.
InitializeCalled ==
  /\ callerPc = "idle"
  /\ callerPc' = "init_send" \/ (callerPc' = "return" /\ lastReply'.method = "initialize")
DisposeCalled ==
  /\ callerPc = "idle"
  /\ callerPc' = "stop_join" \/ (callerPc' = "return" /\ lastReply'.method = "dispose")

\* C11: initialize on an initialized session answers success at once and
\* changes nothing: no process is spawned, no envelope is written, the pending
\* table and the flag are as before.
C11_InitializeIdempotent ==
  [][InitializeCalled /\ is_initialized_
     => /\ lastReply' = Reply("initialize", "Success")
        /\ callerPc' = "return"
        /\ UNCHANGED <<sessionVars, callerRid, processVars, threadVars, childVars>>]_vars

\* C11's case: initialize was answered on a session whose last envelope is a
\* processMessage of a request that is still pending.
C11_Witness ==
  /\ lastReply = Reply("initialize", "Success")
  /\ Len(stdin_log) = 2
  /\ stdin_log[2] = Envelope("processMessage", "r1")
  /\ DOMAIN pending_requests_ = {"r1"}
  /\ spawned = 1

\* C12: initialize on a session that is not initialized answers
\* INITIALIZATION_FAILED exactly when the process is not started or the
\* initialize envelope is not written, and then leaves the flag false;
\* otherwise it answers success and sets the flag in the step of the send,
\* whatever the child has printed.
C12_InitializeOutcome ==
  [][Answers /\ lastReply'.method = "initialize" /\ ~is_initialized_
     => LET started == is_running_'
            sent == stdin_log' = Append(stdin_log, Envelope("initialize", InitId))
        IN /\ lastReply'.code \in {"INITIALIZATION_FAILED", "Success"}
           /\ lastReply'.code = "INITIALIZATION_FAILED" <=> ~(started /\ sent)
           /\ is_initialized_' <=> lastReply'.code = "Success"
           /\ sent <=> (callerPc = "init_send" /\ process_info_ \in alive)
           /\ UNCHANGED <<delivered, replies, pending_requests_>>]_vars

\* C12's case: the process was started, the child died before the initialize
\* envelope could be written, and initialize failed.
C12_Witness ==
  /\ lastReply = Reply("initialize", "INITIALIZATION_FAILED")
  /\ is_running_
  /\ ~is_initialized_
  /\ spawned = 1
  /\ stdin_log = <<>>

\* C13: a stop of a process that is not running (never started, or stopped
\* before) returns at once and changes nothing of the process, the handles,
\* the threads or the child.
C13_StopIdempotent ==
  [][DisposeCalled /\ ~is_running_
     => /\ callerPc' = "return"
        /\ UNCHANGED <<processVars, threadVars, childVars>>]_vars

\* C13's case: after a stop, a start that failed after its first pipe, and
\* then a stop again, which has left that pipe's handle as it was.
C13_Witness ==
  /\ lastReply = Reply("dispose", "Success")
  /\ spawned = 1
  /\ ~is_running_
  /\ child_stdout_read_ = "open"

\* C14: once stop has returned both reader threads have ended, and no message
\* is handed to the callback until the process is started again.
C14_NoCallbackAfterStop ==
  [][~is_running_ /\ callerPc # "stop_join"
     => /\ output_thread_ = "none"
        /\ error_thread_ = "none"
        /\ delivered' = delivered]_vars

\* C14's case: stop returned after one line was delivered, with more output
\* of the child left unread or undelivered.
C14_Witness ==
  /\ lastReply = Reply("dispose", "Success")
  /\ spawned = 1
  /\ Len(delivered) = 1
  /\ accumulated_data \o stdout_pipe # <<>>

IsEvent(m) == \E i \in 1..Len(m) : m[i] = TypeEvent

\* C15: an event line handed to the callback is delivered once to the sink
\* when a subscriber is attached, and is dropped when none is; the pending
\* table and the callers are as before in both cases.
C15_EventDelivery ==
  [][Delivers /\ IsEvent(Delivered) /\ ~IsResponse(Delivered)
     => /\ events' = IF event_sink_
                      THEN Append(events, JsonStringToEncodableValue(Delivered))
                      ELSE events
        /\ UNCHANGED <<pending_requests_, replies>>]_vars

\* C16: once dispose() has answered, no subscriber is attached.
C16_DisposeClearsSubscriber ==
  lastReply = Reply("dispose", "Success") => ~event_sink_

\* The non-empty lines that a byte stream holds, in order, and what follows
\* its last newline.
RECURSIVE LinesOf(_, _)
LinesOf(s, line) ==
  IF s = <<>> THEN <<>>
  ELSE IF Head(s) = NL
       THEN (IF line = <<>> THEN <<>> ELSE <<line>>) \o LinesOf(Tail(s), <<>>)
       ELSE LinesOf(Tail(s), Append(line, Head(s)))
RECURSIVE TrailOf(_, _)
TrailOf(s, line) ==
  IF s = <<>> THEN line
  ELSE IF Head(s) = NL
       THEN TrailOf(Tail(s), <<>>)
       ELSE TrailOf(Tail(s), Append(line, Head(s)))

\* What the child has written and the reader has not split off yet, and the
\* steps of the output reader of one child.
Unread == accumulated_data \o stdout_pipe
ReaderStep ==
  /\ spawned' = spawned
  /\ \/ accumulated_data' # accumulated_data
     \/ Len(stdout_pipe') < Len(stdout_pipe)
     \/ delivered' # delivered
Framed ==
  /\ delivered' \o LinesOf(Unread', <<>>) = delivered \o LinesOf(Unread, <<>>)
  /\ TrailOf(Unread', <<>>) = TrailOf(Unread, <<>>)
  /\ Len(delivered') <= Len(delivered) + 1

\* C17: every step of the output reader keeps the sequence of the non-empty
\* lines (those delivered, then those still to be split off) and the data
\* after the last newline: each line is delivered once, whole and in order,
\* however the stream is cut into reads, and a trailing part is kept.
C17_LineFraming == [][ReaderStep => Framed]_vars

\* The same for a stream of text: while the unread bytes hold no NUL.
C17_TextFraming ==
  [][ReaderStep /\ (\A i \in 1..Len(Unread) : Unread[i] # NUL) => Framed]_vars

\* A line of two bytes was delivered whole and the bytes after its newline
\* are kept in the buffer.
C17_TextWitness ==
  /\ delivered = <<<<Data("a"), Data("b")>>>>
  /\ accumulated_data = <<Data("b")>>
  /\ stdout_pipe = <<>>

\* The accesses of the two threads to the pending table and to the sink.
PlatformWritesTable == platformAt \in {"register", "fail"}
ReaderAccessesTable == readerAt = "route"
PlatformWritesSink == platformAt \in {"listen", "cancel"}
ReaderReadsSink == readerAt = "event" /\ stream_handler_

Disposed == ~is_running_ /\ spawned >= 1

\* C19: an initialize on a disposed session either fails in Start or spawns a
\* child that was not there before, with both reader threads running; when it
\* answers success the session is initialized with that child running, and
\* processMessage and streamMessage are no longer answered NOT_INITIALIZED.
C19_Reinitialize ==
  [][/\ InitializeCalled /\ Disposed
          => \/ /\ callerPc' = "return"
                /\ lastReply' = Reply("initialize", "INITIALIZATION_FAILED")
                /\ ~is_initialized_'
             \/ /\ callerPc' = "init_send"
                /\ spawned' = spawned + 1
                /\ process_info_' = spawned'
                /\ process_info_' \in alive'
                /\ is_running_'
                /\ output_thread_' = "run"
                /\ error_thread_' = "run"
                /\ accumulated_data' = <<>>
     /\ Answers /\ lastReply' = Reply("initialize", "Success")
          => /\ is_initialized_'
             /\ is_running_'
             /\ output_thread_' # "none"
             /\ error_thread_' # "none"
     /\ Answers /\ lastReply'.method \in {"processMessage", "streamMessage"}
                /\ is_initialized_
          => lastReply'.code # "NOT_INITIALIZED"]_vars

\* C19's case: after a dispose the session was initialized again, and a
\* processMessage was sent to the second child.
C19_Witness ==
  /\ spawned = 2
  /\ alive = {2}
  /\ is_initialized_
  /\ output_thread_ = "run"
  /\ error_thread_ = "run"
  /\ stdin_log = <<Envelope("initialize", InitId), Envelope("processMessage", "r1")>>

\* The ids under which streamMessage envelopes were written to the child.
StreamIds == {stdin_log[i].requestId : i \in Streams}

C21_InitializedImpliesRunning == is_initialized_ => is_running_

\* C21 amended: the same in every state but those inside a dispose, between
\* Stop clearing is_running_ and DisposeMcp clearing is_initialized_.
C21_InitializedImpliesRunningOutsideDispose ==
  callerPc # "stop_join" => (is_initialized_ => is_running_)

\* C21's case: the child of an initialized session has exited on its own and
\* both reader threads have ended; the two flags are still set.
C21_Witness ==
  /\ is_initialized_
  /\ is_running_
  /\ alive = {}
  /\ output_thread_ = "exited"
  /\ error_thread_ = "exited"
  /\ callerPc = "idle"

\* C22: once initialize has answered INITIALIZATION_FAILED the supervisor is
\* not running, no child is alive and no reader thread is left.
C22_FailedInitializeLeavesNothing ==
  lastReply = Reply("initialize", "INITIALIZATION_FAILED")
    => /\ ~is_running_
       /\ alive = {}
       /\ output_thread_ = "none"
       /\ error_thread_ = "none"

\* A mutex changes hands towards a thread.
Acquires(mutex, thread) == mutex # thread /\ mutex' = thread
PlatformWaits == platformAt \in {"register_wait", "fail_wait"}
ReaderWaits == readerAt = "route_wait"

\* C23: pending_requests_mutex_ is taken by the reader only while it holds
\* callback_mutex_, callback_mutex_ is never taken by a thread that holds
\* pending_requests_mutex_, and the platform thread holds no mutex while it
\* waits in Stop's joins; a thread that waits for a mutex gets it, and a stop
\* that has begun returns.
C23_NoDeadlock ==
  /\ [][/\ Acquires(pending_requests_mutex_, "reader") => callback_mutex_ = "reader"
        /\ \A thread \in {"platform", "reader"} :
             Acquires(callback_mutex_, thread) => pending_requests_mutex_ # thread
        /\ platformAt' = "join"
             => pending_requests_mutex_' # "platform" /\ callback_mutex_' # "platform"]_vars
  /\ PlatformWaits ~> ~PlatformWaits
  /\ ReaderWaits ~> ~ReaderWaits
  /\ (platformAt = "join") ~> (platformAt = "out" /\ output_thread_ = "none"
                                 /\ error_thread_ = "none")

\* C23's case: stop waits in its joins while the output reader is inside the
\* callback and holds both mutexes.
C23_Witness ==
  /\ platformAt = "join"
  /\ readerAt = "route"
  /\ callback_mutex_ = "reader"
  /\ pending_requests_mutex_ = "reader"
  /\ output_thread_ = "run"
====
